---- MODULE Spec2Model ----
(***************************************************************************)
(* A model of fsc::DebugPrinter (src/DebugPrinter.hpp): the frame line     *)
(* parser, the demangle wrapper, DebugPrinter::stack(), the setters of a   *)
(* printer and the handler of the fatal signals.                           *)
(*                                                                         *)
(* Strings are sequences of one-character strings.  std::string::size_type *)
(* and unsigned int are modelled as integers modulo 2^SizeBits and         *)
(* 2^UIntBits; the widths are scaled down so that the wrapped values stay  *)
(* inside the integers TLC computes with.                                  *)
(***************************************************************************)
EXTENDS Integers, Sequences, FiniteSets, TLC

VARIABLES
    line,        \* the frame description handed to the parser
    origin,      \* the fields the description was composed from, if it was
    parsed,      \* what prog_part .. address_part returned for line
    dm,          \* one call of demangle(): its input, the ABI's answer, its result
    no_cxxabi,   \* the build: TRUE when DEBUGPRINTER_NO_CXXABI is defined
    callstack,   \* the frames of the functions that are running, innermost first
    call,        \* the call of stack() that has just run, if one has
    written,     \* the lines that call wrote to *outstream
    diag,        \* the lines that call wrote to std::cerr
    printers,    \* the fields of the DebugPrinter objects: dout, and d of the handler
    setc,        \* the call of set_color(str) that has just run, if one has
    op,          \* the operation on dout the program is in the middle of
    assigned,    \* the stream of the latest assignment to dout that has returned
    disposition, \* what the process does on each of the four signals
    proc,        \* the process: alive, or killed by a signal
    trap,        \* the run of signal_handler that is under way, if one is
    handled      \* the signals signal_handler has run to its end for

vars ==
    <<line, origin, parsed, dm, no_cxxabi, callstack, call, written, diag,
      printers, setc, op, assigned, disposition, proc, trap, handled>>

\* the state of the parser, of demangle() and of stack()
trace_vars == <<line, origin, parsed, dm, no_cxxabi, callstack, call, written, diag>>

\* the state of the printer objects
printer_vars == <<printers, setc, op, assigned>>

\* the state of the signals
signal_vars == <<disposition, proc, trap, handled>>

---------------------------------------------------------------------------
(* Bounds of the model *)

MaxLen == 4          \* longest arbitrary line given to the parser
MaxPart == 1         \* longest field of a composed frame line
SizeBits == 12       \* width of std::string::size_type in the model
UIntBits == 12       \* width of unsigned int in the model
MaxName == 2         \* longest name given to demangle() on its own
MaxDepth == 4        \* deepest chain of callers above stack()
MaxReq == 2          \* largest small backtrace_size asked for
MaxSkip == 3         \* largest starting offset asked for

---------------------------------------------------------------------------
(* std::string *)

SizeMod == 2 ^ SizeBits

\* std::string::npos is size_type(-1)
npos == SizeMod - 1

\* arithmetic on size_type wraps around
SizeT(x) == x % SizeMod

Min2(a, b) == IF a <= b THEN a ELSE b

SetMin(S) == CHOOSE x \in S : \A y \in S : x <= y

\* what a call that throws std::out_of_range yields; no string is equal to it
OutOfRange == <<"std::out_of_range">>

\* str.find(ch, pos): the first position >= pos (counted from 0) holding ch
Find(str, ch, pos) ==
    LET hits == {i \in 0 .. Len(str) - 1 : i >= pos /\ str[i + 1] = ch}
    IN  IF hits = {} THEN npos ELSE SetMin(hits)

\* str.substr(pos, n): throws when pos > size(), else min(n, size() - pos) characters
Substr(str, pos, n) ==
    IF pos > Len(str)
    THEN OutOfRange
    ELSE SubSeq(str, pos + 1, pos + Min2(n, Len(str) - pos))

StringsUpTo(chars, n) == UNION {[1 .. k -> chars] : k \in 0 .. n}

---------------------------------------------------------------------------
(* The frame line parser (the layout used when __APPLE__ is not defined) *)

prog_part(str) == Substr(str, 0, Find(str, "(", 0))

mangled_part(str) ==
    LET pos == SizeT(Find(str, "(", 0) + 1)
    IN  IF Find(str, "+", pos) = npos
        THEN <<>>
        ELSE Substr(str, pos, SizeT(Find(str, "+", pos) - pos))

\* offset_part with the substring begun one character too late
offset_part_late(str) ==
    LET pos == Find(str, "+", 0)
    IN  IF pos = npos
        THEN <<>>
        ELSE Substr(str, SizeT(pos + 2), SizeT(SizeT(Find(str, ")", pos) - pos) - 1))

offset_part(str) ==
    LET pos == Find(str, "+", 0)
    IN  IF pos = npos
        THEN <<>>
        ELSE Substr(str, SizeT(pos + 1), SizeT(SizeT(Find(str, ")", pos) - pos) - 1))

address_part(str) ==
    LET pos == Find(str, "[", 0)
    IN  IF pos = npos
        THEN <<>>
        ELSE Substr(str, SizeT(pos + 1), SizeT(SizeT(Find(str, "]", pos) - pos) - 1))

---------------------------------------------------------------------------
(* unsigned int and int *)

UIntMod == 2 ^ UIntBits

\* arithmetic on unsigned int wraps around
UInt(x) == x % UIntMod

\* an unsigned int handed to an int parameter
AsInt(u) == IF u >= UIntMod \div 2 THEN u - UIntMod ELSE u

max_backtrace == 50

---------------------------------------------------------------------------
(* demangle() *)

\* the statuses abi::__cxa_demangle reports: success, allocation failure,
\* not a valid mangled name, invalid argument
AbiStatuses == {0, -1, -2, -3}

\* the text abi::__cxa_demangle hands back for a name it demangles: the
\* signature, here the name followed by "()"
AbiText(name) == name \o <<"(", ")">>

\* demangle() that falls back to the input on an allocation failure only
demangle_unless_alloc(str, status, dmgl, cxxabi) ==
    IF cxxabi
    THEN IF status # -1 THEN dmgl ELSE str
    ELSE str

\* demangle(str, status): dmgl is what abi::__cxa_demangle returned (a null
\* pointer, here the empty text, unless status is 0); without cxxabi the input
demangle(str, status, dmgl, cxxabi) ==
    IF cxxabi
    THEN IF status = 0 THEN dmgl ELSE str
    ELSE str

\* what abi::__cxa_demangle returns for name when it reports status
AbiResult(name, status) == IF status = 0 THEN AbiText(name) ELSE <<>>

---------------------------------------------------------------------------
(* The lines stack() writes *)

OutLine(kind, count, prog, name, offset, address, names) ==
    [kind |-> kind, count |-> count, prog |-> prog, name |-> name,
     offset |-> offset, address |-> address, names |-> names]

\* "DebugPrinter obtained <count> stack frames:"
HeaderLine(count) == OutLine("header", count, <<>>, <<>>, <<>>, <<>>, <<>>)

\* "  <prog>:  <demangled>\t+<offset>\t[+<mainoffset>]"
VerboseLine(prog, demangled, offset, mainoffset) ==
    OutLine("frame", 0, prog, demangled, offset, mainoffset, <<>>)

\* "<demangled>"
CompactLine(demangled) == OutLine("name", 0, <<>>, demangled, <<>>, <<>>, <<>>)

\* "  <symbols[i]>"
RawLine(symbol) == OutLine("raw", 0, <<>>, symbol, <<>>, <<>>, <<>>)

\* "DebugPrinter error: Could not allocate memory!"
AllocErrorLine == OutLine("alloc_error", 0, <<>>, <<>>, <<>>, <<>>, <<>>)

\* "DebugPrinter error: Invalid argument to demangle()"
ArgumentErrorLine == OutLine("argument_error", 0, <<>>, <<>>, <<>>, <<>>, <<>>)

\* an empty line
BlankLine == OutLine("blank", 0, <<>>, <<>>, <<>>, <<>>, <<>>)

\* "echo '' && c++filt <names> && echo ''"
FiltLine(names) == OutLine("c++filt", 0, <<>>, <<>>, <<>>, <<>>, names)

\* "DebugPrinter error: No dynamic symbol ...", written to std::cerr
NoSymbolLine == OutLine("no_symbol", 0, <<>>, <<>>, <<>>, <<>>, <<>>)

---------------------------------------------------------------------------
(* The call stack and the runtime's unwinder and symbol resolver *)

\* module(mangled_symbol+function_offset) [module_offset]
FrameLine(module, symbol, function_offset, module_offset) ==
    module \o <<"(">> \o symbol \o <<"+">> \o function_offset
           \o <<")", " ", "[">> \o module_offset \o <<"]">>

\* a running function: the fields of its description, and the status
\* abi::__cxa_demangle reports for its symbol
Frame(module, symbol, status) ==
    [module |-> module, symbol |-> symbol, function_offset |-> <<"1">>,
     module_offset |-> <<"2">>, abi_status |-> status]

\* a C++ function, a C function, a function without a dynamic symbol, and
\* functions at which the demangler fails
FrameKinds ==
    {Frame(<<"p">>, <<"f">>, 0),
     Frame(<<"p">>, <<"c">>, -2),
     Frame(<<"l", "+">>, <<>>, -2),
     Frame(<<"p">>, <<"g">>, -1),
     Frame(<<"p">>, <<"h">>, -3)}

\* the frame of main(), a C function
MainFrame == Frame(<<"p">>, <<"m">>, -2)

\* the frame of DebugPrinter::stack() itself, the innermost one it captures
StackFrame == Frame(<<"p">>, <<"s">>, 0)

\* backtrace(stack, size): the number of return addresses stored, at most
\* size; 0 when the unwinder is not available
backtrace(raw, size, no_unwinder) ==
    IF ~no_unwinder /\ AsInt(size) > 0 THEN Min2(Len(raw), AsInt(size)) ELSE 0

NullSymbols == [null |-> TRUE, lines |-> <<>>]

\* backtrace_symbols(stack, size): one description for each of the first size
\* addresses in one allocated block, or NULL when the block cannot be
\* allocated; a negative size asks for a block of size * sizeof(char*) bytes,
\* which wraps around to more than any allocator grants
backtrace_symbols(raw, size, no_memory) ==
    IF no_memory \/ AsInt(size) < 0
    THEN NullSymbols
    ELSE [null |-> FALSE,
          lines |-> [i \in 1 .. AsInt(size) |->
                        FrameLine(raw[i].module, raw[i].symbol,
                                  raw[i].function_offset, raw[i].module_offset)]]

---------------------------------------------------------------------------
(* DebugPrinter::stack() *)

\* end, as asked for, always the hard ceiling
Wanted_ceiling(begin, backtrace_size) == max_backtrace

\* uint end = begin + backtrace_size; if(end > max_backtrace) end = max_backtrace;
Wanted(begin, backtrace_size) ==
    IF UInt(begin + backtrace_size) > max_backtrace
    THEN max_backtrace
    ELSE UInt(begin + backtrace_size)

\* end = r, without the prettiness hack
Received_kept(r, end) == r

\* if(end == max_backtrace) --r; end = r;
Received(r, end) == IF end = max_backtrace THEN UInt(r - 1) ELSE r

\* the header, written in compact mode too
Header_always(compact, end, begin) == <<HeaderLine(UInt(end - begin))>>

\* if(compact == false) out << "DebugPrinter obtained " << end-begin << ...
Header(compact, end, begin) ==
    IF compact THEN <<>> ELSE <<HeaderLine(UInt(end - begin))>>

\* the loop with i <= end as its condition
LoopIndices_inclusive(begin, end) ==
    IF UInt(begin) <= end
    THEN [k \in 1 .. end - UInt(begin) + 1 |-> UInt(begin) + k - 1]
    ELSE <<>>

\* the loop one frame late
LoopIndices_late(begin, end) ==
    IF UInt(begin) + 1 < end
    THEN [k \in 1 .. end - UInt(begin) - 1 |-> UInt(begin) + k]
    ELSE <<>>

\* for(uint i = begin; i < end; ++i): the values of i, in order
LoopIndices(begin, end) ==
    IF UInt(begin) < end
    THEN [k \in 1 .. end - UInt(begin) |-> UInt(begin) + k - 1]
    ELSE <<>>

\* symbols[i]; past the end of the block it is whatever lies there
SymbolAt(symbols, i) ==
    IF i < Len(symbols) THEN symbols[i + 1] ELSE <<"?">>

\* the status abi::__cxa_demangle reports for the symbol of symbols[i]
StatusAt(raw, i) ==
    IF i < Len(raw) THEN raw[i + 1].abi_status ELSE -2

\* the body of the loop with case -3 left out of the switch
FrameOutput_unreported(symbol, status, compact) ==
    LET name == IF status = 0 THEN AbiText(mangled_part(symbol))
                ELSE mangled_part(symbol)
    IN  IF status = -1 THEN AllocErrorLine
        ELSE IF compact THEN CompactLine(name)
        ELSE VerboseLine(prog_part(symbol), name, offset_part(symbol),
                         address_part(symbol))

\* the body of the loop with cxxabi: what one frame writes to out
FrameOutput(symbol, status, compact) ==
    LET prog == prog_part(symbol)
        mangled == mangled_part(symbol)
        offset == offset_part(symbol)
        mainoffset == address_part(symbol)
        demangled == demangle(mangled, status, AbiResult(mangled, status), TRUE)
    IN  CASE status = -1 -> AllocErrorLine
          [] status = -3 -> ArgumentErrorLine
          [] OTHER ->
               LET name == IF status = -2 THEN mangled ELSE demangled
               IN  IF compact
                   THEN CompactLine(name)
                   ELSE VerboseLine(prog, name, offset, mainoffset)

\* the body of the loop without cxxabi
RawOutput(symbol, compact) ==
    IF compact THEN CompactLine(mangled_part(symbol)) ELSE RawLine(symbol)

Blank(compact) == IF compact THEN <<>> ELSE <<BlankLine>>

\* everything stack() writes to out after the check of symbols
Body(symbols, raw, indices, compact, cxxabi) ==
    IF cxxabi
    THEN [k \in 1 .. Len(indices) |->
            FrameOutput(SymbolAt(symbols, indices[k]),
                        StatusAt(raw, indices[k]), compact)]
         \o Blank(compact)
    ELSE [k \in 1 .. Len(indices) |->
            RawOutput(SymbolAt(symbols, indices[k]), compact)]
         \o Blank(compact)
         \o <<FiltLine([k \in 1 .. Len(indices) |->
                          mangled_part(SymbolAt(symbols, indices[k]))])>>
         \o Blank(compact)

\* what the loop with cxxabi writes to std::cerr
Diagnostics(symbols, indices, cxxabi) ==
    IF cxxabi
    THEN LET nosym == {k \in 1 .. Len(indices) :
                          mangled_part(SymbolAt(symbols, indices[k])) = <<>>}
         IN  [k \in 1 .. Cardinality(nosym) |-> NoSymbolLine]
    ELSE <<>>

\* a part function called in the loop threw
Throws(symbols, indices, cxxabi) ==
    \E k \in 1 .. Len(indices) :
        LET s == SymbolAt(symbols, indices[k])
        IN  OutOfRange \in
               IF cxxabi
               THEN {prog_part(s), mangled_part(s), offset_part(s),
                     address_part(s)}
               ELSE {mangled_part(s)}

---------------------------------------------------------------------------
(* A DebugPrinter object and its setters *)

\* the streams a printer owns once they were moved into it: objects made by
\* new, of which it holds one at a time
OwnedStreams == {"fs1", "fs2"}

\* the streams a printer writes to: std::cout, std::cerr, and the owned ones
Streams == {"cout", "cerr"} \cup OwnedStreams

\* new T(std::move(os)): an object other than the one outstream_mm holds
NewStream(held) == IF held = "fs1" THEN "fs2" ELSE "fs1"

Digits == {"0", "1", "2", "3", "4", "5", "6", "7", "8", "9"}

\* is_number(s): s is not empty and holds nothing but digits
is_number(s) == s # <<>> /\ \A i \in 1 .. Len(s) : s[i] \in Digits

\* an object that has not been constructed
Unconstructed ==
    [constructed |-> FALSE, outstream |-> "null", outstream_mm |-> "null",
     prec_ |-> 0, hcol_ |-> <<>>, hcol_r_ |-> <<>>]

\* operator=(std::ostream & os): outstream = &os
assign(p, os) == [p EXCEPT !.outstream = os]

\* operator=(T && os), first statement: outstream_mm = shared_ptr(new T(move(os)))
\* the shared_ptr releases, and so destroys, the stream it held before
assign_moving_new(p) == [p EXCEPT !.outstream_mm = NewStream(p.outstream_mm)]

\* operator=(T && os) without its second statement
assign_moving_get_kept(p) == p

\* operator=(T && os), second statement: outstream = outstream_mm.get()
assign_moving_get(p) == [p EXCEPT !.outstream = p.outstream_mm]

\* set_precision(prec): prec_ = prec
set_precision(p, prec) == [p EXCEPT !.prec_ = prec]

\* how set_color(str) ends: the condition is evaluated left to right, and
\* str.substr(2,2) throws when str is shorter than two characters
ColorOutcome(str) ==
    IF ~is_number(Substr(str, 0, 1)) THEN "runtime_error"
    ELSE IF Substr(str, 2, 2) = OutOfRange THEN "out_of_range"
    ELSE IF is_number(Substr(str, 2, 2)) THEN "ok"
    ELSE "runtime_error"

\* hcol_ = "\033[" + str + "m"
set_hcol(p, str) == [p EXCEPT !.hcol_ = <<"ESC", "[">> \o str \o <<"m">>]

\* hcol_r_ = "\033[0m"
set_hcol_r(p) == [p EXCEPT !.hcol_r_ = <<"ESC", "[", "0", "m">>]

\* set_color(str) storing the colour before it looks at it
set_color_early(p, str) ==
    IF ColorOutcome(str) = "ok" THEN set_hcol_r(set_hcol(p, str))
    ELSE set_hcol(p, str)

\* set_color(str): the printer after the call, whether it returned or threw
set_color(p, str) ==
    IF ColorOutcome(str) = "ok" THEN set_hcol_r(set_hcol(p, str)) ELSE p

\* set_color(), first statement: hcol_ = ""
clear_hcol(p) == [p EXCEPT !.hcol_ = <<>>]

\* set_color(), second statement: hcol_r_ = ""
clear_hcol_r(p) == [p EXCEPT !.hcol_r_ = <<>>]

\* DebugPrinter(): operator=(std::cout); set_precision(5); set_color("0;31");
Constructed ==
    set_color(set_precision(assign([Unconstructed EXCEPT !.constructed = TRUE],
                                   "cout"), 5),
              <<"0", ";", "3", "1">>)

---------------------------------------------------------------------------
(* The fatal signals and signal_handler *)

\* sig_names(): the signals the constructor installs signal_handler for
Signals == {"SIGABRT", "SIGFPE", "SIGSEGV", "SIGSYS"}

\* the constructor's loop: sigaction(sig.first, &act, NULL), act.sa_handler =
\* signal_handler, for every signal of sig_names()
arm(disp) == [sig \in Signals |-> "signal_handler"]

\* act.sa_handler = SIG_DFL; sigaction(signum, &act, NULL);
restore(disp, signum) == [disp EXCEPT ![signum] = "SIG_DFL"]

\* the construction of an object whose fields all objects share
construct_shared(ps, id) ==
    [q \in DOMAIN ps |-> IF q = id \/ ps[q].constructed THEN Constructed ELSE ps[q]]

\* the construction of the object id
construct(ps, id) == [ps EXCEPT ![id] = Constructed]

\* the stream the handler writes to, were it the one of dout
HandlerSink_global(ps) == ps["dout"].outstream

\* the stream the handler writes to: d << ..., d.stack(...)
HandlerSink(ps) == ps["d"].outstream

\* "DebugPrinter handler caught signal <name> (<signum>)"
CaughtLine(signum) == OutLine("caught", 0, <<>>, <<signum>>, <<>>, <<>>, <<>>)

\* the frame of signal_handler, and the frame the kernel puts below it to
\* return from the handler, which has no dynamic symbol
HandlerFrame == Frame(<<"p">>, <<"t">>, 0)

TrampolineFrame == Frame(<<"l">>, <<>>, -2)

\* the frames the unwinder walks when stack() is called by signal_handler
HandlerFrames(interrupted) ==
    <<StackFrame, HandlerFrame, TrampolineFrame>> \o interrupted

\* the lines stack(backtrace_size, compact, begin) writes to out
StackLines(raw, backtrace_size, compact, begin, no_unwinder, no_memory, cxxabi) ==
    LET asked == Wanted(begin, backtrace_size)
        r == backtrace(raw, asked, no_unwinder)
        end == Received(r, asked)
        symbols == backtrace_symbols(raw, end, no_memory)
    IN  Header(compact, end, begin)
        \o IF symbols.null
           THEN <<>>
           ELSE Body(symbols.lines, raw, LoopIndices(begin, end), compact, cxxabi)

\* what signal_handler writes to the stream of its printer:
\* d << "DebugPrinter handler caught signal " ...; d.stack(max_backtrace, false, 3);
HandlerLines(signum, interrupted, no_unwinder, no_memory, cxxabi) ==
    <<CaughtLine(signum)>>
    \o StackLines(HandlerFrames(interrupted), max_backtrace, FALSE, 3,
                  no_unwinder, no_memory, cxxabi)

---------------------------------------------------------------------------
(* States before anything has run *)

NoOrigin ==
    [composed |-> FALSE, module |-> <<>>, symbol |-> <<>>,
     function_offset |-> <<>>, module_offset |-> <<>>]

NotParsed ==
    [done |-> FALSE, prog |-> <<>>, mangled |-> <<>>, offset |-> <<>>,
     address |-> <<>>]

NoDemangle ==
    [done |-> FALSE, str |-> <<>>, abi_status |-> 0, result |-> <<>>]

NoCall ==
    [done |-> FALSE, backtrace_size |-> 0, compact |-> FALSE, begin |-> 0,
     r |-> 0, end |-> 0, null |-> FALSE, reads |-> <<>>, threw |-> FALSE]

ParserIdle == line = <<>> /\ origin = NoOrigin /\ parsed = NotParsed

DemangleIdle == dm = NoDemangle

StackIdle ==
    /\ callstack = <<>>
    /\ call = NoCall
    /\ written = <<>>
    /\ diag = <<>>

NoSetColor ==
    [done |-> FALSE, str |-> <<>>, outcome |-> "none", before |-> Unconstructed]

NoOp == [kind |-> "none", out |-> "null"]

NoTrap ==
    [pc |-> "idle", signum |-> "none", raised |-> FALSE, sink |-> "null",
     saved |-> Unconstructed, saved_op |-> NoOp]

Alive == [alive |-> TRUE, killed_by |-> "none"]

\* no DebugPrinter object in the program
PrinterIdle ==
    /\ printers = [id \in {"dout", "d"} |-> Unconstructed]
    /\ setc = NoSetColor
    /\ op = NoOp
    /\ assigned = "null"

SignalIdle ==
    /\ disposition = [sig \in Signals |-> "SIG_DFL"]
    /\ proc = Alive
    /\ trap = NoTrap
    /\ handled = {}

---------------------------------------------------------------------------
(* The parser on its own *)

\* the delimiters the parser looks for, and one ordinary character
LineChars == {"(", ")", "+", "[", "]", "a"}

\* characters of a field of a composed line: no '(', ')', '[', ']'
PartChars == {"a", "b", "+"}

\* characters of a mangled symbol: no '+' either
SymbolChars == {"a", "b"}

Origins ==
    {[composed |-> TRUE, module |-> m, symbol |-> s,
      function_offset |-> f, module_offset |-> a] :
        m \in StringsUpTo(PartChars, MaxPart),
        s \in StringsUpTo(SymbolChars, MaxPart),
        f \in StringsUpTo(PartChars, MaxPart),
        a \in StringsUpTo(PartChars, MaxPart)}

ParseInit ==
    /\ \/ /\ line \in StringsUpTo(LineChars, MaxLen)
          /\ origin = NoOrigin
       \/ /\ origin \in Origins
          /\ line = FrameLine(origin.module, origin.symbol,
                              origin.function_offset, origin.module_offset)
    /\ parsed = NotParsed
    /\ no_cxxabi = FALSE
    /\ DemangleIdle
    /\ StackIdle
    /\ PrinterIdle
    /\ SignalIdle

\* the four parts of one line, fetched as stack() fetches them
Parse ==
    /\ ~parsed.done
    /\ parsed' = [done |-> TRUE,
                  prog |-> prog_part(line),
                  mangled |-> mangled_part(line),
                  offset |-> offset_part(line),
                  address |-> address_part(line)]
    /\ UNCHANGED <<line, origin, dm, no_cxxabi, callstack, call, written, diag,
                 printer_vars, signal_vars>>

ParseNext == Parse

ParseSpec == ParseInit /\ [][ParseNext]_vars

---------------------------------------------------------------------------
(* demangle() on its own *)

DemangleInit ==
    /\ no_cxxabi \in BOOLEAN
    /\ \E str \in StringsUpTo(SymbolChars, MaxName), status \in AbiStatuses :
          dm = [done |-> FALSE, str |-> str, abi_status |-> status,
                result |-> <<>>]
    /\ ParserIdle
    /\ StackIdle
    /\ PrinterIdle
    /\ SignalIdle

\* one call demangle(dm.str, status), abi::__cxa_demangle reporting dm.abi_status
Demangle ==
    /\ ~dm.done
    /\ dm' = [dm EXCEPT
                !.done = TRUE,
                !.result = demangle(dm.str, dm.abi_status,
                                    AbiResult(dm.str, dm.abi_status),
                                    ~no_cxxabi)]
    /\ UNCHANGED <<line, origin, parsed, no_cxxabi, callstack, call, written, diag,
                 printer_vars, signal_vars>>

DemangleNext == Demangle

DemangleSpec == DemangleInit /\ [][DemangleNext]_vars

---------------------------------------------------------------------------
(* stack() called by a running program *)

\* the values of backtrace_size: small ones, the default, one below it, and
\* the 100 of the example
Sizes == (0 .. MaxReq) \cup {max_backtrace - 1, max_backtrace, 2 * max_backtrace}

\* the values of begin: small ones, and one that reaches the ceiling alone
Begins == (0 .. MaxSkip) \cup {max_backtrace}

Init ==
    /\ no_cxxabi \in BOOLEAN
    /\ callstack = <<MainFrame>>
    /\ call = NoCall
    /\ written = <<>>
    /\ diag = <<>>
    /\ ParserIdle
    /\ DemangleIdle
    /\ PrinterIdle
    /\ SignalIdle

\* the innermost function calls another one
Enter(frame) ==
    /\ ~call.done
    /\ Len(callstack) < MaxDepth
    /\ callstack' = <<frame>> \o callstack
    /\ UNCHANGED <<line, origin, parsed, dm, no_cxxabi, call, written, diag,
                 printer_vars, signal_vars>>

\* the innermost function returns
Leave ==
    /\ ~call.done
    /\ Len(callstack) > 1
    /\ callstack' = Tail(callstack)
    /\ UNCHANGED <<line, origin, parsed, dm, no_cxxabi, call, written, diag,
                 printer_vars, signal_vars>>

\* the innermost function calls stack(backtrace_size, compact, begin); the
\* unwinder may be missing, the resolver's allocation may fail
stack(backtrace_size, compact, begin, no_unwinder, no_memory) ==
    /\ ~call.done
    /\ LET raw == <<StackFrame>> \o callstack
           asked == Wanted(begin, backtrace_size)
           r == backtrace(raw, asked, no_unwinder)
           end == Received(r, asked)
           symbols == backtrace_symbols(raw, end, no_memory)
           indices == IF symbols.null THEN <<>> ELSE LoopIndices(begin, end)
       IN  /\ written' = Header(compact, end, begin)
                         \o IF symbols.null
                            THEN <<>>
                            ELSE Body(symbols.lines, raw, indices, compact,
                                      ~no_cxxabi)
           /\ diag' = Diagnostics(symbols.lines, indices, ~no_cxxabi)
           /\ call' = [done |-> TRUE, backtrace_size |-> backtrace_size,
                       compact |-> compact, begin |-> begin, r |-> r,
                       end |-> end, null |-> symbols.null, reads |-> indices,
                       threw |-> Throws(symbols.lines, indices, ~no_cxxabi)]
    /\ UNCHANGED <<line, origin, parsed, dm, no_cxxabi, callstack,
                 printer_vars, signal_vars>>

\* stack() has returned and the program goes on
Resume ==
    /\ call.done
    /\ call' = NoCall
    /\ written' = <<>>
    /\ diag' = <<>>
    /\ UNCHANGED <<line, origin, parsed, dm, no_cxxabi, callstack,
                 printer_vars, signal_vars>>

Next ==
    \/ \E frame \in FrameKinds : Enter(frame)
    \/ Leave
    \/ \E backtrace_size \in Sizes, compact \in BOOLEAN, begin \in Begins,
          no_unwinder \in BOOLEAN, no_memory \in BOOLEAN :
          stack(backtrace_size, compact, begin, no_unwinder, no_memory)
    \/ Resume

Spec == Init /\ [][Next]_vars

---------------------------------------------------------------------------
(* The setters of dout called by a running program *)

MaxColor == 4        \* longest arbitrary argument given to set_color(str)

\* a digit, the separator, and a character that is neither
ColorChars == {"1", ";", "x"}

\* the colour codes of the sources: the constructor's, example 03's, test.cpp's
SourceColors ==
    {<<"0", ";", "3", "1">>, <<"1", ";", "3", "4">>, <<"3", "1">>}

\* the arguments of set_precision: the default, and the 13 of example 03
Precisions == {5, 13}

\* static DebugPrinter& dout = *new DebugPrinter;
DoutConstructed ==
    /\ printers = [id \in {"dout", "d"} |->
                      IF id = "dout" THEN Constructed ELSE Unconstructed]
    /\ setc = NoSetColor
    /\ op = NoOp
    /\ assigned = "cout"
    /\ disposition = arm([sig \in Signals |-> "SIG_DFL"])
    /\ proc = Alive
    /\ trap = NoTrap
    /\ handled = {}

ColorInit ==
    /\ DoutConstructed
    /\ no_cxxabi = FALSE
    /\ ParserIdle
    /\ DemangleIdle
    /\ StackIdle

\* the program runs, and is not in the middle of a call on dout
Running == proc.alive /\ trap.pc = "idle"

BetweenCalls == Running /\ op = NoOp /\ ~setc.done

\* dout = os;
AssignStream(os) ==
    /\ BetweenCalls
    /\ printers' = [printers EXCEPT !["dout"] = assign(@, os)]
    /\ assigned' = os
    /\ UNCHANGED <<trace_vars, setc, op, signal_vars>>

\* dout.set_precision(prec);
SetPrecision(prec) ==
    /\ BetweenCalls
    /\ printers' = [printers EXCEPT !["dout"] = set_precision(@, prec)]
    /\ UNCHANGED <<trace_vars, setc, op, assigned, signal_vars>>

\* dout.set_color(str); from its call to its return or its exception
SetColor(str) ==
    /\ BetweenCalls
    /\ printers' = [printers EXCEPT !["dout"] = set_color(@, str)]
    /\ setc' = [done |-> TRUE, str |-> str, outcome |-> ColorOutcome(str),
                before |-> printers["dout"]]
    /\ UNCHANGED <<trace_vars, op, assigned, signal_vars>>

\* the program goes on after set_color(str), having caught what it threw
SetColorDone ==
    /\ setc.done
    /\ setc' = NoSetColor
    /\ UNCHANGED <<trace_vars, printers, op, assigned, signal_vars>>

\* dout.set_color();
ClearColor ==
    /\ BetweenCalls
    /\ printers' = [printers EXCEPT !["dout"] = clear_hcol_r(clear_hcol(@))]
    /\ UNCHANGED <<trace_vars, setc, op, assigned, signal_vars>>

ColorNext ==
    \/ \E os \in {"cout", "cerr"} : AssignStream(os)
    \/ \E prec \in Precisions : SetPrecision(prec)
    \/ \E str \in StringsUpTo(ColorChars, MaxColor) \cup SourceColors : SetColor(str)
    \/ SetColorDone
    \/ ClearColor

ColorSpec == ColorInit /\ [][ColorNext]_vars

---------------------------------------------------------------------------
(* The program and the fatal signals: the calls on dout one statement at a
   time, so that a signal can come between two statements of one call *)

\* main() and a function it called, which a signal interrupts
TrapInit ==
    /\ DoutConstructed
    /\ no_cxxabi = FALSE
    /\ callstack = <<Frame(<<"p">>, <<"f">>, 0), MainFrame>>
    /\ call = NoCall
    /\ written = <<>>
    /\ diag = <<>>
    /\ ParserIdle
    /\ DemangleIdle

\* dout = std::move(fs); first statement
MoveStreamNew ==
    /\ BetweenCalls
    /\ printers' = [printers EXCEPT !["dout"] = assign_moving_new(@)]
    /\ op' = [kind |-> "move", out |-> "null"]
    /\ UNCHANGED <<trace_vars, setc, assigned, signal_vars>>

\* dout = std::move(fs); second statement
MoveStreamGet ==
    /\ Running
    /\ op.kind = "move"
    /\ printers' = [printers EXCEPT !["dout"] = assign_moving_get(@)]
    /\ op' = NoOp
    /\ assigned' = printers["dout"].outstream_mm
    /\ UNCHANGED <<trace_vars, setc, signal_vars>>

\* dout.set_color(str); with a str it accepts, up to hcol_ = ...
SetColorHcol(str) ==
    /\ BetweenCalls
    /\ ColorOutcome(str) = "ok"
    /\ printers' = [printers EXCEPT !["dout"] = set_hcol(@, str)]
    /\ op' = [kind |-> "set_color", out |-> "null"]
    /\ UNCHANGED <<trace_vars, setc, assigned, signal_vars>>

\* dout.set_color(str); hcol_r_ = ... and return
SetColorHcolR ==
    /\ Running
    /\ op.kind = "set_color"
    /\ printers' = [printers EXCEPT !["dout"] = set_hcol_r(@)]
    /\ op' = NoOp
    /\ UNCHANGED <<trace_vars, setc, assigned, signal_vars>>

\* dout.set_color(); first statement
ClearHcol ==
    /\ BetweenCalls
    /\ printers' = [printers EXCEPT !["dout"] = clear_hcol(@)]
    /\ op' = [kind |-> "clear_color", out |-> "null"]
    /\ UNCHANGED <<trace_vars, setc, assigned, signal_vars>>

\* dout.set_color(); second statement
ClearHcolR ==
    /\ Running
    /\ op.kind = "clear_color"
    /\ printers' = [printers EXCEPT !["dout"] = clear_hcol_r(@)]
    /\ op' = NoOp
    /\ UNCHANGED <<trace_vars, setc, assigned, signal_vars>>

\* dout << output; std::ostream & out = *d.outstream;
PrintRead ==
    /\ BetweenCalls
    /\ op' = [kind |-> "print", out |-> printers["dout"].outstream]
    /\ UNCHANGED <<trace_vars, printers, setc, assigned, signal_vars>>

\* dout << output; out << ... << output ...; out.flush(); return d;
PrintWrite ==
    /\ Running
    /\ op.kind = "print"
    /\ op' = NoOp
    /\ UNCHANGED <<trace_vars, printers, setc, assigned, signal_vars>>

\* the program constructs one more DebugPrinter object of its own
ConstructPrinter ==
    /\ BetweenCalls
    /\ disposition' = arm(disposition)
    /\ UNCHANGED <<trace_vars, printer_vars, proc, trap, handled>>

\* the process gets the signal sig: raised by raise() or kill(), or by a
\* fault of the instruction that runs.  The constructor leaves sa_flags of
\* act unset: with the bit SA_RESETHAND in what lies there, the disposition
\* is back to the default when signal_handler is entered.
Signal(sig, raised, resethand) ==
    /\ Running
    /\ ~setc.done
    /\ IF disposition[sig] = "SIG_DFL"
       THEN /\ proc' = [alive |-> FALSE, killed_by |-> sig]
            /\ UNCHANGED <<disposition, trap>>
       ELSE /\ trap' = [pc |-> "entered", signum |-> sig, raised |-> raised,
                        sink |-> "null", saved |-> printers["dout"],
                        saved_op |-> op]
            /\ disposition' = IF resethand THEN restore(disposition, sig)
                              ELSE disposition
            /\ UNCHANGED proc
    /\ UNCHANGED <<trace_vars, printer_vars, handled>>

\* static DebugPrinter d; d << "DebugPrinter handler caught signal " ...;
\* d.stack(max_backtrace, false, 3);
HandlerTrace(no_unwinder, no_memory) ==
    /\ trap.pc = "entered"
    /\ LET first == ~printers["d"].constructed
           ps == IF first THEN construct(printers, "d") ELSE printers
       IN  /\ printers' = ps
           /\ disposition' = IF first THEN arm(disposition) ELSE disposition
           /\ trap' = [trap EXCEPT !.pc = "traced", !.sink = HandlerSink(ps)]
    /\ written' = HandlerLines(trap.signum, callstack, no_unwinder, no_memory,
                               ~no_cxxabi)
    /\ UNCHANGED <<line, origin, parsed, dm, no_cxxabi, callstack, call, diag,
                   setc, op, assigned, proc, handled>>

\* act.sa_handler = SIG_DFL; sigaction(signum, &act, NULL);
HandlerRestore ==
    /\ trap.pc = "traced"
    /\ disposition' = restore(disposition, trap.signum)
    /\ trap' = [trap EXCEPT !.pc = "restored"]
    /\ UNCHANGED <<trace_vars, printer_vars, proc, handled>>

\* signal_handler returns: after raise() or kill() the program goes on
\* where it was; after a fault the instruction runs again, the signal comes
\* again and the default disposition ends the process
HandlerReturn ==
    /\ trap.pc = "restored"
    /\ handled' = handled \cup {trap.signum}
    /\ proc' = IF ~trap.raised /\ disposition[trap.signum] = "SIG_DFL"
               THEN [alive |-> FALSE, killed_by |-> trap.signum]
               ELSE proc
    /\ trap' = NoTrap
    /\ written' = <<>>
    /\ UNCHANGED <<line, origin, parsed, dm, no_cxxabi, callstack, call, diag,
                   printer_vars, disposition>>

TrapNext ==
    \/ \E os \in {"cout", "cerr"} : AssignStream(os)
    \/ \E prec \in Precisions : SetPrecision(prec)
    \/ MoveStreamNew
    \/ MoveStreamGet
    \/ SetColorHcol(<<"1", ";", "3", "4">>)
    \/ SetColorHcolR
    \/ ClearHcol
    \/ ClearHcolR
    \/ PrintRead
    \/ PrintWrite
    \/ ConstructPrinter
    \/ \E sig \in Signals, raised \in BOOLEAN, resethand \in BOOLEAN :
          Signal(sig, raised, resethand)
    \/ \E no_unwinder \in BOOLEAN, no_memory \in BOOLEAN :
          HandlerTrace(no_unwinder, no_memory)
    \/ HandlerRestore
    \/ HandlerReturn

TrapSpec == TrapInit /\ [][TrapNext]_vars

---------------------------------------------------------------------------
(* Claims about the frame line parser, checked under ParseSpec *)

Has(str, ch) == \E i \in 1 .. Len(str) : str[i] = ch

IsString(x) == x # OutOfRange /\ \A i \in 1 .. Len(x) : x[i] \in LineChars \cup PartChars

\* C1: a line composed as module(symbol+function_offset) [module_offset] is
\* decomposed by prog_part, mangled_part, offset_part and address_part into
\* exactly the four strings it was composed from.
C1_RoundTrip ==
    (parsed.done /\ origin.composed) =>
        /\ parsed.prog = origin.module
        /\ parsed.mangled = origin.symbol
        /\ parsed.offset = origin.function_offset
        /\ parsed.address = origin.module_offset

\* C7: for every input string each of the four part functions returns a string
\* and none raises std::out_of_range.
C7_ParserTotal ==
    parsed.done =>
        /\ IsString(parsed.prog)
        /\ IsString(parsed.mangled)
        /\ IsString(parsed.offset)
        /\ IsString(parsed.address)

\* C7 witness: a parsed line that is not of the frame layout and ends in '+',
\* where the offset substring starts at the very end of the string.
C7_Witness ==
    /\ parsed.done
    /\ ~origin.composed
    /\ Len(line) > 0
    /\ line[Len(line)] = "+"
    /\ ~Has(line, ")")

\* C8: a field is the empty string whenever its opening or its closing
\* delimiter is absent from the line: '(' and '+' for the mangled symbol, '+'
\* and ')' for the function offset, '[' and ']' for the module offset.
C8_MissingDelimiterEmptyField ==
    parsed.done =>
        /\ (~Has(line, "(") \/ ~Has(line, "+")) => parsed.mangled = <<>>
        /\ (~Has(line, "+") \/ ~Has(line, ")")) => parsed.offset = <<>>
        /\ (~Has(line, "[") \/ ~Has(line, "]")) => parsed.address = <<>>

\* C9: for a line without '(' the module path is the whole line and the
\* mangled symbol, the function offset and the module offset are all empty.
C9_NoParenthesis ==
    (parsed.done /\ ~Has(line, "(")) =>
        /\ parsed.prog = line
        /\ parsed.mangled = <<>>
        /\ parsed.offset = <<>>
        /\ parsed.address = <<>>

---------------------------------------------------------------------------
(* Claims about demangle(), checked under DemangleSpec *)

\* C10: with cxxabi demangle(s, status) returns the text of the ABI's
\* demangler exactly when the status is 0 and returns s unchanged for every
\* other status; without cxxabi it returns s for every input.
C10_DemangleFallback ==
    dm.done =>
        /\ ~no_cxxabi =>
              /\ dm.abi_status = 0 => dm.result = AbiText(dm.str)
              /\ dm.abi_status # 0 => dm.result = dm.str
              /\ dm.result = AbiText(dm.str) <=> dm.abi_status = 0
        /\ no_cxxabi => dm.result = dm.str

\* C10 witness: a name the ABI rejects as invalid has come back unchanged.
C10_Witness ==
    /\ dm.done
    /\ ~no_cxxabi
    /\ dm.abi_status = -2
    /\ Len(dm.str) > 0
    /\ dm.result = dm.str

---------------------------------------------------------------------------
(* Claims about stack(), checked under Spec *)

\* the frames the unwinder walks, innermost first: stack() itself, then its callers
RawFrames == <<StackFrame>> \o callstack

\* the kinds of line written for one frame
PerFrameKinds == {"frame", "name", "raw", "alloc_error", "argument_error"}

PerFrameCount == Cardinality({k \in 1 .. Len(written) : written[k].kind \in PerFrameKinds})

Max0(x) == IF x > 0 THEN x ELSE 0

\* the name a frame is to be shown by: demangled, or the mangled symbol
ExpectedName(frame) ==
    IF ~no_cxxabi /\ frame.abi_status = 0
    THEN AbiText(frame.symbol)
    ELSE frame.symbol

\* the frames begin .. begin + backtrace_size - 1 were captured, begin +
\* backtrace_size is below the ceiling, and none of them has the status of an
\* allocation failure or of an invalid argument
SelectionCase ==
    /\ call.done
    /\ call.compact
    /\ call.r >= call.begin + call.backtrace_size
    /\ call.begin + call.backtrace_size < max_backtrace
    /\ \A k \in 1 .. call.backtrace_size :
          RawFrames[call.begin + k].abi_status \notin {-1, -3}

SelectedNames ==
    [k \in 1 .. call.backtrace_size |->
        CompactLine(ExpectedName(RawFrames[call.begin + k]))]

\* C2: one call stack(N, compact, skip) writes at most N per-frame lines.
C2_AtMostRequested == call.done => PerFrameCount <= call.backtrace_size

\* C2 witness: two frames were asked for from a deeper stack and two lines written.
C2_Witness ==
    /\ call.done
    /\ call.backtrace_size = 2
    /\ call.begin = 1
    /\ Len(RawFrames) > 3
    /\ PerFrameCount = 2

\* C3 as claimed: in the selection case stack(N, true, begin) writes exactly N
\* lines, the k-th being only the name of raw frame begin + k - 1.
C3_Original == SelectionCase => written = SelectedNames

\* C3 as amended: the same, when moreover the demangler is compiled in and
\* backtrace_symbols() returned the descriptions.
C3_CompactSelection ==
    (SelectionCase /\ ~no_cxxabi /\ ~call.null) => written = SelectedNames

\* C3 witness: stack(1, true, 2) on a chain five frames deep has written one
\* line, the demangled name of the third frame from the innermost.
C3_Witness ==
    /\ SelectionCase
    /\ ~no_cxxabi
    /\ ~call.null
    /\ call.backtrace_size = 1
    /\ call.begin = 2
    /\ Len(RawFrames) = 5
    /\ RawFrames[3].abi_status = 0
    /\ written = <<CompactLine(AbiText(RawFrames[3].symbol))>>

ResolvedCount ==
    IF Wanted(call.begin, call.backtrace_size) = max_backtrace
    THEN Max0(call.r - 1)
    ELSE call.r

\* C5: the frame count in the verbose header is the resolved frame count
\* minus the skip count, clamped at zero: never negative, never a
\* wrapped-around value.
C5_HeaderCount ==
    (call.done /\ ~call.compact) =>
        /\ written[1].kind = "header"
        /\ written[1].count = Max0(ResolvedCount - call.begin)

\* C6: when the skip count is at least the number of captured frames (with or
\* without the frame dropped at the ceiling), stack() writes no per-frame
\* line, reads no frame description and returns normally.
C6_SkipAll ==
    (call.done /\ call.begin >= ResolvedCount) =>
        /\ PerFrameCount = 0
        /\ call.reads = <<>>
        /\ ~call.threw

\* C6 witness: the skip count equals the number of captured frames, which
\* were resolved.
C6_Witness ==
    /\ call.done
    /\ call.r > 0
    /\ call.begin = call.r
    /\ ~call.null
    /\ PerFrameCount = 0

\* C21: the number of entries stack() hands to backtrace_symbols() and every
\* index it reads in the loop are at most the count r that backtrace()
\* returned and below the ceiling of 50, also when r is 0 at the ceiling.
C21_NoOverread ==
    call.done =>
        /\ call.end <= call.r
        /\ call.end < max_backtrace
        /\ \A k \in 1 .. Len(call.reads) :
              call.reads[k] < call.r /\ call.reads[k] < max_backtrace

\* the line written for the k-th frame read, and that frame
LineOfRead(k) == written[k + Len(Header(call.compact, call.end, call.begin))]

FrameOfRead(k) == RawFrames[call.reads[k] + 1]

\* the lines of a frame that tell no failure
OrdinaryKinds == {"frame", "name"}

\* C11 as claimed: with the demangler, the lines written for two frames whose
\* demangle statuses differ (0, -1, -2, -3) are lines of different kinds, so
\* each failure kind is told apart from the others and from a success.
C11_Original ==
    (call.done /\ ~no_cxxabi) =>
        \A j, k \in 1 .. Len(call.reads) :
            FrameOfRead(j).abi_status # FrameOfRead(k).abi_status
                => LineOfRead(j).kind # LineOfRead(k).kind

\* C11 as amended: with the demangler, an allocation failure (-1) and an
\* invalid argument (-3) are each reported by an error line of their own in
\* place of the frame's line; a name invalid under the ABI rules (-2) is not
\* reported: the frame's ordinary line is written as for a success, with the
\* mangled symbol where the demangled text would be.
C11_FailureReports ==
    (call.done /\ ~no_cxxabi) =>
        \A k \in 1 .. Len(call.reads) :
            /\ LineOfRead(k).kind = "alloc_error"
                  <=> FrameOfRead(k).abi_status = -1
            /\ LineOfRead(k).kind = "argument_error"
                  <=> FrameOfRead(k).abi_status = -3
            /\ FrameOfRead(k).abi_status \in {0, -2} =>
                  /\ LineOfRead(k).kind \in OrdinaryKinds
                  /\ LineOfRead(k).name = ExpectedName(FrameOfRead(k))
            /\ FrameOfRead(k).abi_status = -2 =>
                  LineOfRead(k).name = FrameOfRead(k).symbol

\* C11 witness: one verbose trace over frames of all four statuses.
C11_Witness ==
    /\ call.done
    /\ ~no_cxxabi
    /\ ~call.compact
    /\ {FrameOfRead(k).abi_status : k \in 1 .. Len(call.reads)} = AbiStatuses
    /\ \E k \in 1 .. Len(call.reads) :
          /\ FrameOfRead(k).abi_status = -2
          /\ LineOfRead(k).kind = "frame"

\* stack(100, false, 0) of the example, or stack() with its default arguments
WholeStackCase ==
    /\ call.done
    /\ ~call.compact
    /\ \/ call.backtrace_size = 2 * max_backtrace /\ call.begin = 0
       \/ call.backtrace_size = max_backtrace /\ call.begin = 1

\* C14 as claimed: a whole-stack request writes one frame line for every
\* captured frame from index begin on, the outermost one included.
C14_Original ==
    WholeStackCase =>
        /\ PerFrameCount = Max0(call.r - call.begin)
        /\ call.reads = [k \in 1 .. Max0(call.r - call.begin) |-> call.begin + k - 1]

\* C14 as amended: when backtrace_symbols() returned the descriptions, a
\* whole-stack request writes one line for every captured frame from index
\* begin on except the outermost, which is dropped because the request
\* reached the ceiling.
C14_WholeStack ==
    (WholeStackCase /\ ~call.null) =>
        /\ PerFrameCount = Max0(call.r - 1 - call.begin)
        /\ call.reads = [k \in 1 .. Max0(call.r - 1 - call.begin) |-> call.begin + k - 1]

\* C14 witness: stack(100, false, 0) with five frames captured has written
\* four frame lines.
C14_Witness ==
    /\ WholeStackCase
    /\ ~call.null
    /\ call.backtrace_size = 2 * max_backtrace
    /\ call.r = 5
    /\ Len(RawFrames) = 5
    /\ PerFrameCount = 4

\* C17: when backtrace_symbols() returns NULL, stack() writes no per-frame
\* line, shows a frame count of zero in the header if it writes one, throws
\* nothing and returns.
C17_ResolutionFailure ==
    (call.done /\ call.null) =>
        /\ PerFrameCount = 0
        /\ ~call.threw
        /\ \A k \in 1 .. Len(written) :
              written[k].kind = "header" => written[k].count = 0

\* the line of a verbose trace that frame shows as: its module, symbol and
\* offset line, or its demangle error line
IsLineOf(ln, frame) ==
    \/ frame.abi_status = -1 /\ ln = AllocErrorLine
    \/ frame.abi_status = -3 /\ ln = ArgumentErrorLine
    \/ /\ frame.abi_status \notin {-1, -3}
       /\ ln.kind = "frame"
       /\ ln.name = ExpectedName(frame)

\* C20: a verbose trace with the demangler and begin not above the resolved
\* frame count is the header with a count k, then exactly k lines, the j-th
\* being the line of raw frame begin + j - 1, then one blank line, and
\* nothing else.
C20_VerboseShape ==
    (call.done /\ ~call.compact /\ ~no_cxxabi /\ call.begin <= ResolvedCount) =>
        /\ Len(written) >= 2
        /\ written[1].kind = "header"
        /\ LET k == written[1].count
           IN  /\ Len(written) = k + 2
               /\ call.begin + k <= Len(RawFrames)
               /\ \A j \in 1 .. k :
                     IsLineOf(written[j + 1], RawFrames[call.begin + j])
               /\ written[k + 2] = BlankLine

---------------------------------------------------------------------------
(* Claims about set_color(str), checked under ColorSpec *)

\* a numeric colour code: groups of digits, one or more, separated by ';'
IsColourCode(str) ==
    /\ str # <<>>
    /\ \A i \in 1 .. Len(str) : str[i] \in Digits \cup {";"}
    /\ str[1] # ";"
    /\ str[Len(str)] # ";"
    /\ \A i \in 1 .. Len(str) - 1 : ~(str[i] = ";" /\ str[i + 1] = ";")

\* C15: set_color(str) succeeds exactly for the numeric colour codes and
\* reports an error for every other string.
C15_NumericCodes ==
    setc.done => (setc.outcome = "ok" <=> IsColourCode(setc.str))

\* C16: when set_color(str) reports an error, the highlight colour, the reset
\* colour, the sink and the precision of the printer are what they were
\* before the call.
C16_FailedSetColor ==
    (setc.done /\ setc.outcome # "ok") => printers["dout"] = setc.before

\* C16 witness: a one-character argument was refused on a printer whose sink,
\* precision and colours had all been changed since its construction.
C16_Witness ==
    /\ setc.done
    /\ Len(setc.str) = 1
    /\ setc.outcome = "out_of_range"
    /\ setc.before.outstream = "cerr"
    /\ setc.before.prec_ = 13
    /\ setc.before.hcol_ = <<>>
    /\ printers["dout"] = setc.before

---------------------------------------------------------------------------
(* Claims about the fatal signals, checked under TrapSpec *)

\* C12: when a trapped signal has fired while armed, the handler emits the
\* trace before it restores the default disposition, and once the handler
\* has run to its end the signal has been delivered again and has ended the
\* process, whether it came from a fault or from raise().
C12_TrapProtocol ==
    /\ trap.pc = "restored" =>
          /\ written # <<>>
          /\ disposition[trap.signum] = "SIG_DFL"
    /\ \A sig \in handled : ~proc.alive /\ proc.killed_by = sig

\* signal_handler has written its trace
TraceWritten == trap.pc \in {"traced", "restored"}

\* C13 as claimed: the trace of the handler is not empty and is written to
\* the stream dout was set to when the signal fired.
C13_Original ==
    TraceWritten =>
        /\ written # <<>>
        /\ trap.sink = trap.saved.outstream

\* C13 as amended: the trace of the handler is not empty, begins with the
\* line naming the signal, and is written to std::cout, the stream of the
\* handler's own printer, whatever stream dout was set to.
C13_TraceSink ==
    TraceWritten =>
        /\ written # <<>>
        /\ written[1] = CaughtLine(trap.signum)
        /\ trap.sink = "cout"

\* C13 witness: the trace was written to std::cout while dout, after a
\* moving and a borrowing assignment, was set to std::cerr.
C13_Witness ==
    /\ TraceWritten
    /\ trap.saved.outstream = "cerr"
    /\ trap.saved.outstream_mm = "fs1"
    /\ trap.saved_op = NoOp
    /\ trap.sink = "cout"
    /\ Len(written) > 2

\* C18: no step of signal_handler changes a field of dout or the state of
\* the call on dout it interrupted.
C18_HandlerIsolation ==
    [][trap.pc # "idle" => (printers'["dout"] = printers["dout"] /\ op' = op)]_vars

\* C18 witness: the handler has run, on its own printer d, between the two
\* statements of a moving assignment to dout, which was set to std::cerr with
\* precision 13, and dout and the assignment are as they were.
C18_Witness ==
    /\ trap.pc = "restored"
    /\ trap.saved_op.kind = "move"
    /\ printers["d"].constructed
    /\ printers["d"].outstream = "cout"
    /\ printers["dout"].outstream = "cerr"
    /\ printers["dout"].outstream_mm = "fs1"
    /\ printers["dout"].prec_ = 13
    /\ printers["dout"] = trap.saved
    /\ op = trap.saved_op

\* C19: a signal the handler has run to its end for stays at the default
\* disposition, and the handler is not entered for it again.
C19_InstalledOnce ==
    /\ \A sig \in handled : disposition[sig] = "SIG_DFL"
    /\ trap.pc # "idle" => trap.signum \notin handled

---------------------------------------------------------------------------
(* Claims about the sink of dout, checked under TrapSpec *)

====
